---- MODULE Spec2Model ----
(***************************************************************************)
(* Model of server.py: a Flask application with three routes               *)
(*   GET  /health            health_check                                  *)
(*   POST /remove-bg         remove_background  (multipart upload)         *)
(*   POST /remove-bg-base64  remove_background_base64 (JSON, base64)       *)
(* served by app.run(threaded=True): every request runs on its own thread, *)
(* the threads share the file system (temporary files).                    *)
(*                                                                         *)
(* Bytes are naturals 0..255, byte strings are sequences of bytes, text is *)
(* a sequence of one-character strings.                                    *)
(***************************************************************************)
EXTENDS Integers, Sequences, FiniteSets, TLC

\* ------------------------------------------------------------------ bounds
\* number of request threads that can be in flight at the same time
NumThreads == 2
\* number of requests the server accepts during one run
MaxRequests == 2

Threads == 1..NumThreads

\* ------------------------------------------------------- program constants
\* app.config['MAX_CONTENT_LENGTH']
MAX_CONTENT_LENGTH == 16 * 1024 * 1024

\* maximum image dimension of the specification (the code has no such value)
MaxDimension == 1200

\* ------------------------------------------------------------------- text
Chars(s) == {s[i] : i \in 1..Len(s)}

UpperChars == <<"A","B","C","D","E","F","G","H","I","J","K","L","M",
                "N","O","P","Q","R","S","T","U","V","W","X","Y","Z">>
LowerChars == <<"a","b","c","d","e","f","g","h","i","j","k","l","m",
                "n","o","p","q","r","s","t","u","v","w","x","y","z">>

\* str.lower() on one character
LowerChar(c) ==
  IF \E i \in 1..26 : UpperChars[i] = c
  THEN LowerChars[CHOOSE i \in 1..26 : UpperChars[i] = c]
  ELSE c

\* str.lower()
Lower(s) == [i \in 1..Len(s) |-> LowerChar(s[i])]

\* position of the last "." of s, 0 when there is none
LastDot(s) ==
  IF \E i \in 1..Len(s) : s[i] = "."
  THEN CHOOSE i \in 1..Len(s) : s[i] = "." /\ \A j \in (i+1)..Len(s) : s[j] # "."
  ELSE 0

\* s.split('.')[-1]
SplitLast(s) == SubSeq(s, LastDot(s) + 1, Len(s))

\* s.rsplit('.', 1)[0]
RsplitFirst(s) == IF LastDot(s) = 0 THEN s ELSE SubSeq(s, 1, LastDot(s) - 1)

\* allowed_extensions
allowed_extensions ==
  { <<"p","n","g">>, <<"j","p","g">>, <<"j","p","e","g">>,
    <<"w","e","b","p">>, <<"b","m","p">>, <<"t","i","f","f">> }

\* file_ext = file.filename.lower().split('.')[-1] if '.' in file.filename else ''
file_ext(filename) ==
  IF "." \in Chars(filename) THEN SplitLast(Lower(filename)) ELSE <<>>

\* download_name = f"no_bg_{file.filename.rsplit('.', 1)[0]}.png"
download_name(filename) ==
  <<"n","o","_","b","g","_">> \o RsplitFirst(filename) \o <<".","p","n","g">>

\* ----------------------------------------------------------------- base64
B64Alphabet ==
  <<"A","B","C","D","E","F","G","H","I","J","K","L","M","N","O","P",
    "Q","R","S","T","U","V","W","X","Y","Z","a","b","c","d","e","f",
    "g","h","i","j","k","l","m","n","o","p","q","r","s","t","u","v",
    "w","x","y","z","0","1","2","3","4","5","6","7","8","9","+","/">>

B64Char(v) == B64Alphabet[v + 1]

IsB64Char(c) == \E i \in 1..64 : B64Alphabet[i] = c

B64Value(c) == (CHOOSE i \in 1..64 : B64Alphabet[i] = c) - 1

\* base64.b64encode of one group of 1, 2 or 3 bytes
EncodeGroup(g) ==
  LET b1 == g[1]
      b2 == IF Len(g) >= 2 THEN g[2] ELSE 0
      b3 == IF Len(g) >= 3 THEN g[3] ELSE 0
      c1 == B64Char(b1 \div 4)
      c2 == B64Char((b1 % 4) * 16 + (b2 \div 16))
      c3 == B64Char((b2 % 16) * 4 + (b3 \div 64))
      c4 == B64Char(b3 % 64)
  IN  IF Len(g) = 1 THEN <<c1, c2, "=", "=">>
      ELSE IF Len(g) = 2 THEN <<c1, c2, c3, "=">>
      ELSE <<c1, c2, c3, c4>>

RECURSIVE b64encode(_)
\* base64.b64encode(data).decode('utf-8')
b64encode(data) ==
  IF Len(data) = 0 THEN <<>>
  ELSE IF Len(data) <= 3 THEN EncodeGroup(data)
  ELSE EncodeGroup(SubSeq(data, 1, 3)) \o b64encode(SubSeq(data, 4, Len(data)))

RECURSIVE a2b_base64(_, _, _, _, _, _)
\* binascii.a2b_base64 in its default non-strict mode, the decoder behind
\* base64.b64decode(s): characters outside the alphabet are skipped, a
\* complete pad sequence ends the input, an incomplete last group is an error
a2b_base64(s, i, quad_pos, leftchar, pads, out) ==
  IF i > Len(s)
  THEN [ok |-> quad_pos = 0, data |-> out]
  ELSE IF s[i] = "="
  THEN IF quad_pos >= 2 /\ quad_pos + pads + 1 >= 4
       THEN [ok |-> TRUE, data |-> out]
       ELSE a2b_base64(s, i + 1, quad_pos, leftchar,
                       IF quad_pos >= 2 THEN pads + 1 ELSE pads, out)
  ELSE IF ~IsB64Char(s[i])
  THEN a2b_base64(s, i + 1, quad_pos, leftchar, pads, out)
  ELSE LET v == B64Value(s[i])
       IN  IF quad_pos = 0 THEN a2b_base64(s, i + 1, 1, v, 0, out)
           ELSE IF quad_pos = 1
           THEN a2b_base64(s, i + 1, 2, v % 16, 0,
                           Append(out, leftchar * 4 + (v \div 16)))
           ELSE IF quad_pos = 2
           THEN a2b_base64(s, i + 1, 3, v % 4, 0,
                           Append(out, leftchar * 16 + (v \div 4)))
           ELSE a2b_base64(s, i + 1, 0, 0, 0, Append(out, leftchar * 64 + v))

\* base64.b64decode(s): ok = FALSE stands for binascii.Error
b64decode(s) == a2b_base64(s, 1, 0, 0, 0, <<>>)

\* ------------------------------------------------------------------ images
\* An image file is modelled as a magic byte, the width and the height as
\* 16-bit big-endian numbers, and one byte of pixel data.
Magic == 137

ImageFile(w, h, px) == <<Magic, w \div 256, w % 256, h \div 256, h % 256, px>>

Width(b) == b[2] * 256 + b[3]
Height(b) == b[4] * 256 + b[5]
LongerSide(b) == IF Width(b) >= Height(b) THEN Width(b) ELSE Height(b)

\* PIL.Image.open succeeds on the bytes
Decodable(b) == Len(b) = 6 /\ b[1] = Magic /\ Width(b) > 0 /\ Height(b) > 0

\* rembg.remove(data) when it returns: a PNG of the dimensions of its input
\* whose pixel data is the cut-out
RemoveOutput(b) == <<b[1], b[2], b[3], b[4], b[5], 255 - b[6]>>

\* ---------------------------------------------------------------- requests
\* uploads and JSON bodies the clients send
SmallImage == ImageFile(800, 600, 10)
LargeImage == ImageFile(1600, 900, 20)
CorruptBytes == <<0, 1, 2>>
EmptyBytes == <<>>

BadNames == { <<"p","n","g">>, <<"a",".","g","i","f">> }

\* a body one byte over the limit
OverLimit == MAX_CONTENT_LENGTH + 1

\* a request as the handlers see it: route, Content-Length, the multipart
\* 'image' part (request.files) and the JSON body (request.get_json)
Request(route, n, hasImage, filename, content, isJson, parses, hasKey, image) ==
  [route |-> route, contentLength |-> n,
   hasImage |-> hasImage, filename |-> filename, content |-> content,
   isJson |-> isJson, parses |-> parses, hasKey |-> hasKey, image |-> image]

Upload(contentLength, hasImage, filename, content) ==
  Request("/remove-bg", contentLength, hasImage, filename, content,
          FALSE, FALSE, FALSE, <<>>)

JsonPost(contentLength, isJson, parses, hasKey, image) ==
  Request("/remove-bg-base64", contentLength, FALSE, <<>>, <<>>,
          isJson, parses, hasKey, image)

HealthRequests ==
  { Request("/health", 0, FALSE, <<>>, <<>>, FALSE, FALSE, FALSE, <<>>) }

UploadRequests ==
       { Upload(OverLimit, TRUE, <<"a",".","p","n","g">>, SmallImage),
         Upload(1024, FALSE, <<>>, <<>>),
         Upload(1024, TRUE, <<>>, SmallImage) }
  \cup { Upload(1024, TRUE, f, SmallImage) : f \in BadNames }
  \cup { Upload(1024, TRUE, <<"a",".","p","n","g">>, c) :
           c \in {LargeImage, CorruptBytes, EmptyBytes} }
  \cup { Upload(MAX_CONTENT_LENGTH, TRUE, <<"a",".","b",".","J","P","E","G">>,
                SmallImage) }

\* text that base64.b64decode rejects (incomplete last group)
BadPadding(s) == SubSeq(s, 1, Len(s) - 1)
\* text with a character outside the base64 alphabet, which b64decode skips
Stray(s) == <<"!">> \o s

Base64Requests ==
       { JsonPost(1024, FALSE, FALSE, FALSE, <<>>),
         JsonPost(1024, TRUE, FALSE, FALSE, <<>>),
         JsonPost(1024, TRUE, TRUE, FALSE, <<>>),
         JsonPost(OverLimit, TRUE, TRUE, TRUE, b64encode(SmallImage)) }
  \cup { JsonPost(1024, TRUE, TRUE, TRUE, s) :
           s \in { b64encode(LargeImage), b64encode(CorruptBytes),
                   Stray(b64encode(SmallImage)),
                   BadPadding(b64encode(SmallImage)) } }

Requests == HealthRequests \cup UploadRequests \cup Base64Requests

NoRequest == Request("", 0, FALSE, <<>>, <<>>, FALSE, FALSE, FALSE, <<>>)

\* --------------------------------------------------------------- responses
\* a response: status, Content-Type, the JSON object of a jsonify() body
\* (<<>> when the body is not JSON), the bytes of a file body, and the
\* attachment name
Response(status, mimetype, json, body, name) ==
  [status |-> status, mimetype |-> mimetype, json |-> json,
   body |-> body, download_name |-> name]

\* jsonify(obj), status
jsonify(obj, status) == Response(status, "application/json", obj, <<>>, <<>>)

NoResponse == Response(0, "", <<>>, <<>>, <<>>)

\* value of a local variable that has not been assigned
None == <<-1>>

\* names tempfile.NamedTemporaryFile can give a new file
TempNames == 1..MaxRequests
NoPath == 0

\* ------------------------------------------------------------------- state
VARIABLES
  pc,              \* per thread: position of its handler
  req,             \* per thread: the request being handled
  input_image,     \* per thread: local input_image / image_data
  output_image,    \* per thread: local output_image
  temp_file_path,  \* per thread: local temp_file_path
  resp,            \* per thread: the response returned by the handler
  calls,           \* per thread: calls of rembg.remove made for the request
  disk,            \* temporary files on disk: name -> content
  accepted         \* number of requests accepted so far

vars == <<pc, req, input_image, output_image, temp_file_path, resp, calls,
          disk, accepted>>

locals == <<input_image, output_image, temp_file_path>>

Init ==
  /\ pc = [t \in Threads |-> "idle"]
  /\ req = [t \in Threads |-> NoRequest]
  /\ input_image = [t \in Threads |-> None]
  /\ output_image = [t \in Threads |-> None]
  /\ temp_file_path = [t \in Threads |-> NoPath]
  /\ resp = [t \in Threads |-> NoResponse]
  /\ calls = [t \in Threads |-> 0]
  /\ disk = <<>>
  /\ accepted = 0

\* the route table: @app.route decorators
Handler(route) ==
  IF route = "/health" THEN "health_check"
  ELSE IF route = "/remove-bg" THEN "remove_background"
  ELSE "remove_background_base64"

\* a request arrives and is dispatched to a new thread
Receive(t) ==
  /\ pc[t] = "idle"
  /\ accepted < MaxRequests
  /\ \E r \in Requests :
       /\ req' = [req EXCEPT ![t] = r]
       /\ pc' = [pc EXCEPT ![t] = Handler(r.route)]
  /\ accepted' = accepted + 1
  /\ UNCHANGED <<locals, resp, calls, disk>>

\* the handler returns response r
Return(t, r) ==
  /\ resp' = [resp EXCEPT ![t] = r]
  /\ pc' = [pc EXCEPT ![t] = "done"]

\* except Exception as e: return jsonify({"error": ...}), 500
Failed == jsonify([error |-> "Failed to process image"], 500)

\* variant of HealthResponse: the service reports itself unavailable
HealthResponse_unavailable ==
  jsonify([status |-> "error", message |-> "Service unavailable"], 503)

\* GET /health
HealthResponse ==
  jsonify([status |-> "ok",
           message |-> "Background removal service is running"], 200)

health_check(t) ==
  /\ pc[t] = "health_check"
  /\ Return(t, HealthResponse)
  /\ UNCHANGED <<req, locals, calls, disk, accepted>>

\* ---------------------------------------------------------- POST /remove-bg
\* variant of rb_check: the extension allow-list is not enforced
rb_check_any_extension(r) ==
  IF r.contentLength > MAX_CONTENT_LENGTH THEN Failed
  ELSE IF ~r.hasImage
  THEN jsonify([error |-> "No image file provided"], 400)
  ELSE IF r.filename = <<>>
  THEN jsonify([error |-> "No file selected"], 400)
  ELSE NoResponse

\* the checks of remove_background in the order of the code; the result is
\* the response of the first check that fails, NoResponse when all pass.
\* Reading request.files parses the form, which raises RequestEntityTooLarge
\* for a body over MAX_CONTENT_LENGTH; the handler's except Exception
\* catches it.
rb_check(r) ==
  IF r.contentLength > MAX_CONTENT_LENGTH THEN Failed
  ELSE IF ~r.hasImage
  THEN jsonify([error |-> "No image file provided"], 400)
  ELSE IF r.filename = <<>>
  THEN jsonify([error |-> "No file selected"], 400)
  ELSE IF file_ext(r.filename) \notin allowed_extensions
  THEN jsonify([error |-> "Unsupported file type"], 400)
  ELSE NoResponse

rb_validate(t) ==
  /\ pc[t] = "remove_background"
  /\ LET e == rb_check(req[t])
     IN  IF e.status # 0
         THEN Return(t, e)
         ELSE /\ pc' = [pc EXCEPT ![t] = "rb_remove"]
              /\ UNCHANGED resp
  /\ UNCHANGED <<req, locals, calls, disk, accepted>>

\* what a call remove(data) can do: raise because the bytes are no image,
\* raise in the inference step, or return
RemoveOutcomes(data) ==
  IF Decodable(data) THEN {"returns", "inference_error"} ELSE {"decode_error"}

\* input_image = file.read(); output_image = remove(input_image)
rb_remove(t) ==
  /\ pc[t] = "rb_remove"
  /\ input_image' = [input_image EXCEPT ![t] = req[t].content]
  /\ calls' = [calls EXCEPT ![t] = @ + 1]
  /\ \E o \in RemoveOutcomes(req[t].content) :
       IF o = "returns"
       THEN /\ output_image' =
                 [output_image EXCEPT ![t] = RemoveOutput(req[t].content)]
            /\ pc' = [pc EXCEPT ![t] = "rb_mktemp"]
            /\ UNCHANGED resp
       ELSE /\ Return(t, Failed)
            /\ UNCHANGED output_image
  /\ UNCHANGED <<req, temp_file_path, disk, accepted>>

\* variant of FreshNames: the name of an existing file can be chosen again
FreshNames_reused(d) == TempNames

\* names NamedTemporaryFile can choose: it never reuses the name of a file
\* that exists
FreshNames(d) == TempNames \ DOMAIN d

\* with tempfile.NamedTemporaryFile(delete=False, suffix='.png') as temp_file:
\*     temp_file.write(output_image); temp_file_path = temp_file.name
\* the file is created under a fresh name, written and closed
rb_mktemp(t) ==
  /\ pc[t] = "rb_mktemp"
  /\ \E name \in FreshNames(disk) :
       /\ disk' = [n \in DOMAIN disk \cup {name} |->
                     IF n = name THEN output_image[t] ELSE disk[n]]
       /\ temp_file_path' = [temp_file_path EXCEPT ![t] = name]
  /\ pc' = [pc EXCEPT ![t] = "rb_send"]
  /\ UNCHANGED <<req, input_image, output_image, resp, calls, accepted>>

\* variant of send_file: the body is taken before the file has been flushed
send_file_unflushed(path, filename) ==
  Response(200, "image/png", <<>>, <<>>, download_name(filename))

\* send_file(temp_file_path, mimetype='image/png', as_attachment=True,
\*           download_name=...)
send_file(path, filename) ==
  Response(200, "image/png", <<>>, disk[path], download_name(filename))

\* return send_file(...); remove_temp_file is defined but never called
rb_send(t) ==
  /\ pc[t] = "rb_send"
  /\ Return(t, send_file(temp_file_path[t], req[t].filename))
  /\ UNCHANGED <<req, locals, calls, disk, accepted>>

\* --------------------------------------------------- POST /remove-bg-base64
\* what request.get_json() can do.  A body not declared as JSON gives None
\* (Flask before 2.1) or raises UnsupportedMediaType; a body over
\* MAX_CONTENT_LENGTH raises RequestEntityTooLarge when the stream is read
\* (Werkzeug from 2.3) or is read like any other; a body that does not parse
\* raises BadRequest.
get_json(r) ==
  IF ~r.isJson THEN {"None", "raises"}
  ELSE (IF r.contentLength > MAX_CONTENT_LENGTH THEN {"raises"} ELSE {})
       \cup (IF r.parses THEN {"data"} ELSE {"raises"})

\* the response of lines 89-97 for an outcome of get_json; NoResponse when
\* the image data was decoded
b64_check(r, o) ==
  IF o = "raises" THEN Failed
  ELSE IF o = "None" \/ ~r.hasKey
  THEN jsonify([error |-> "No base64 image data provided"], 400)
  ELSE IF ~b64decode(r.image).ok
  THEN jsonify([error |-> "Invalid base64 image data"], 400)
  ELSE NoResponse

b64_parse(t) ==
  /\ pc[t] = "remove_background_base64"
  /\ \E o \in get_json(req[t]) :
       LET e == b64_check(req[t], o)
       IN  IF e.status # 0
           THEN /\ Return(t, e)
                /\ UNCHANGED input_image
           ELSE /\ input_image' =
                     [input_image EXCEPT ![t] = b64decode(req[t].image).data]
                /\ pc' = [pc EXCEPT ![t] = "b64_remove"]
                /\ UNCHANGED resp
  /\ UNCHANGED <<req, output_image, temp_file_path, calls, disk, accepted>>

\* jsonify({"success": True, "image": output_base64, "format": "png"})
b64_success(output) ==
  jsonify([success |-> TRUE, image |-> b64encode(output), format |-> "png"],
          200)

\* output_image = remove(image_data) and the response
b64_remove(t) ==
  /\ pc[t] = "b64_remove"
  /\ calls' = [calls EXCEPT ![t] = @ + 1]
  /\ \E o \in RemoveOutcomes(input_image[t]) :
       IF o = "returns"
       THEN /\ output_image' =
                 [output_image EXCEPT ![t] = RemoveOutput(input_image[t])]
            /\ Return(t, b64_success(RemoveOutput(input_image[t])))
       ELSE /\ Return(t, Failed)
            /\ UNCHANGED output_image
  /\ UNCHANGED <<req, input_image, temp_file_path, disk, accepted>>

\* ------------------------------------------------------------------ server
\* the response has been sent and the request's thread ends
Finish(t) ==
  /\ pc[t] = "done"
  /\ pc' = [pc EXCEPT ![t] = "idle"]
  /\ req' = [req EXCEPT ![t] = NoRequest]
  /\ input_image' = [input_image EXCEPT ![t] = None]
  /\ output_image' = [output_image EXCEPT ![t] = None]
  /\ temp_file_path' = [temp_file_path EXCEPT ![t] = NoPath]
  /\ resp' = [resp EXCEPT ![t] = NoResponse]
  /\ calls' = [calls EXCEPT ![t] = 0]
  /\ UNCHANGED <<disk, accepted>>

\* one step of the handler running on thread t
Step(t) ==
  \/ health_check(t)
  \/ rb_validate(t)
  \/ rb_remove(t)
  \/ rb_mktemp(t)
  \/ rb_send(t)
  \/ b64_parse(t)
  \/ b64_remove(t)
  \/ Finish(t)

Next == \E t \in Threads : Receive(t) \/ Step(t)

Spec == Init /\ [][Next]_vars

\* threaded=True: every thread that has a request keeps running
FairSpec == Spec /\ \A t \in Threads : WF_vars(Step(t))

\* ================================================================== claims
IsUpload(t) == req[t].route = "/remove-bg"
IsBase64(t) == req[t].route = "/remove-bg-base64"
IsHealth(t) == req[t].route = "/health"
Done(t) == pc[t] = "done"
InFlight(t) == pc[t] \notin {"idle", "done"}
WithinLimit(t) == req[t].contentLength <= MAX_CONTENT_LENGTH
HasError(t, msg) ==
  "error" \in DOMAIN resp[t].json /\ resp[t].json.error = msg

\* the upload passes the field, filename and extension checks
PassesChecks(t) ==
  /\ IsUpload(t) /\ WithinLimit(t)
  /\ req[t].hasImage /\ req[t].filename # <<>>
  /\ file_ext(req[t].filename) \in allowed_extensions

\* C1: a POST /remove-bg whose body exceeds MAX_CONTENT_LENGTH is answered
\* with 413, never with 400 or 500.
C1_OversizeIs413 ==
  \A t \in Threads :
    (Done(t) /\ IsUpload(t) /\ ~WithinLimit(t)) => resp[t].status = 413

\* C2: the checks of POST /remove-bg run in the order field, filename,
\* extension and the first failure decides the 400 response; a request that
\* fails one of them never has its upload read, never calls remove and never
\* creates a temporary file.
C2_ValidationOrder ==
  \A t \in Threads :
    IsUpload(t) =>
      /\ (Done(t) /\ WithinLimit(t) /\ ~req[t].hasImage)
           => (resp[t].status = 400 /\ HasError(t, "No image file provided"))
      /\ (Done(t) /\ WithinLimit(t) /\ req[t].hasImage /\ req[t].filename = <<>>)
           => (resp[t].status = 400 /\ HasError(t, "No file selected"))
      /\ (Done(t) /\ WithinLimit(t) /\ req[t].hasImage /\ req[t].filename # <<>>
            /\ file_ext(req[t].filename) \notin allowed_extensions)
           => (resp[t].status = 400 /\ HasError(t, "Unsupported file type"))
      /\ (~req[t].hasImage \/ req[t].filename = <<>>
            \/ file_ext(req[t].filename) \notin allowed_extensions)
           => /\ input_image[t] = None
              /\ calls[t] = 0
              /\ temp_file_path[t] = NoPath
              /\ pc[t] \in {"remove_background", "done"}

\* a request with a file name of a type that is not allowed has been answered
C2_Witness ==
  \E t \in Threads :
    /\ Done(t) /\ IsUpload(t) /\ WithinLimit(t)
    /\ req[t].filename = <<"a",".","g","i","f">>
    /\ resp[t].status = 400
    /\ disk = <<>>

\* C3: a POST /remove-bg whose 'image' part has zero bytes is answered with
\* 400 whatever its file name, and never reaches the call of remove.
C3_EmptyUploadIs400 ==
  \A t \in Threads :
    (IsUpload(t) /\ WithinLimit(t) /\ req[t].hasImage /\ req[t].content = <<>>)
      => (calls[t] = 0 /\ (Done(t) => resp[t].status = 400))

\* C4: an upload that passes the checks but cannot be decoded as an image is
\* answered with 400; 500 is the answer to a failure of the inference step
\* only.
C4_UndecodableIs400 ==
  \A t \in Threads :
    (Done(t) /\ PassesChecks(t)) =>
      /\ ~Decodable(req[t].content) => resp[t].status = 400
      /\ resp[t].status = 500 => Decodable(req[t].content)

\* C5: every temporary file on disk belongs to a request that is still being
\* handled: once the requests that created them have completed, no temporary
\* file is left.
C5_NoTempFileLeft ==
  \A name \in DOMAIN disk : \E t \in Threads : temp_file_path[t] = name

\* C6: with requests in flight at the same time, each successful response is
\* the removal result of the request's own input, no two requests use the
\* same temporary file, and every request completes.
C6_OwnResult ==
  \A t \in Threads :
    /\ (Done(t) /\ IsUpload(t) /\ resp[t].status = 200)
         => resp[t].body = RemoveOutput(req[t].content)
    /\ (Done(t) /\ IsBase64(t) /\ resp[t].status = 200)
         => resp[t].json.image =
              b64encode(RemoveOutput(b64decode(req[t].image).data))
    /\ temp_file_path[t] # NoPath
         => \A u \in Threads \ {t} : temp_file_path[u] # temp_file_path[t]

\* position of a handler: every step of a request moves it forward
Rank(p) ==
  IF p \in {"health_check", "remove_background", "remove_background_base64"}
  THEN 1
  ELSE IF p \in {"rb_remove", "b64_remove"} THEN 2
  ELSE IF p = "rb_mktemp" THEN 3
  ELSE IF p = "rb_send" THEN 4
  ELSE IF p = "done" THEN 5
  ELSE 0

\* a request being handled can always take its next step, whatever the other
\* requests are doing
C6_NeverBlocked == \A t \in Threads : InFlight(t) => ENABLED Step(t)

C6_Isolation ==
  /\ [](C6_OwnResult /\ C6_NeverBlocked)
  /\ [][\A t \in Threads :
          (InFlight(t) /\ pc'[t] # pc[t]) => Rank(pc'[t]) > Rank(pc[t])]_vars

\* under fair scheduling of the threads every request is answered
C6_Completes == \A t \in Threads : (pc[t] # "idle") ~> (pc[t] = "done")

\* two uploads of different images were in flight together and both have
\* been answered
C6_Witness ==
  \E t, u \in Threads :
    /\ t # u
    /\ Done(t) /\ IsUpload(t) /\ resp[t].status = 200
    /\ Done(u) /\ IsUpload(u) /\ resp[u].status = 200
    /\ req[t].content # req[u].content

\* C7: a POST /remove-bg whose call of remove returned is answered with 200,
\* Content-Type image/png and the bytes remove returned; remove is called
\* once for the request, never a second time.
C7_SuccessResponse ==
  \A t \in Threads :
    /\ calls[t] <= 1
    /\ (Done(t) /\ IsUpload(t) /\ output_image[t] # None)
         => /\ resp[t].status = 200
            /\ resp[t].mimetype = "image/png"
            /\ resp[t].body = output_image[t]
            /\ calls[t] = 1

\* an upload has been answered with the cut-out of its image
C7_Witness ==
  \E t \in Threads :
    /\ Done(t) /\ IsUpload(t) /\ resp[t].status = 200
    /\ resp[t].body = RemoveOutput(LargeImage)

\* C8: on POST /remove-bg-base64 a body that is not JSON, has no 'image' key
\* or carries invalid base64 is answered with 400 and an 'error' key, never
\* 500; a successful request is answered with success, format and the base64
\* text of the removal result.
C8_ClientErrorsAre400 ==
  \A t \in Threads :
    (Done(t) /\ IsBase64(t)) =>
      /\ (~req[t].isJson \/ ~req[t].parses \/ ~req[t].hasKey
            \/ ~b64decode(req[t].image).ok)
           => (resp[t].status = 400 /\ "error" \in DOMAIN resp[t].json)
      /\ resp[t].status = 200
           => /\ resp[t].json.success
              /\ resp[t].json.format = "png"
              /\ resp[t].json.image = b64encode(output_image[t])

\* C9: handling GET /health answers 200 with status 'ok' in every state and
\* changes nothing else: no temporary file, no call of remove, no other
\* request's state.
C9_HealthNoEffect ==
  [][\A t \in Threads :
       (pc[t] = "health_check" /\ pc'[t] # "health_check")
         => /\ resp'[t].status = 200
            /\ "status" \in DOMAIN resp'[t].json
            /\ resp'[t].json.status = "ok"
            /\ disk' = disk
            /\ calls' = calls
            /\ locals' = locals
            /\ \A u \in Threads \ {t} : pc'[u] = pc[u] /\ resp'[u] = resp[u]
    ]_vars

\* a health check has been answered while another request was being handled
\* and a temporary file was on disk
C9_Witness ==
  \E t, u \in Threads :
    /\ t # u
    /\ Done(t) /\ IsHealth(t) /\ resp[t].status = 200
    /\ InFlight(u)
    /\ DOMAIN disk # {}

\* C10: the image handed to remove and the image returned to the client have
\* a longer side of at most MaxDimension.
C10_DimensionBounded ==
  \A t \in Threads :
    /\ (calls[t] > 0 /\ Decodable(input_image[t]))
         => LongerSide(input_image[t]) <= MaxDimension
    /\ (Done(t) /\ IsUpload(t) /\ resp[t].status = 200)
         => LongerSide(resp[t].body) <= MaxDimension

====
